---- MODULE Spec2Model ----
(***************************************************************************)
(* Model of the model-monitor data joiner                                  *)
(* (model_monitor_data_joiner/run.py: _validate_join_column_in_input_data, *)
(* join_data, run) and of the task-type enumeration of the distillation    *)
(* data-generation constants (constants.py: MetaEnum,                      *)
(* DataGenerationTaskType).                                                *)
(*                                                                         *)
(* A dataframe is a record [columns, rows]: columns is the ordered list of *)
(* column names (what DataFrame.columns returns) and rows is a bag of      *)
(* tuples aligned with columns (a Spark dataframe is an unordered          *)
(* multiset of rows).  A handle that may be None is a set holding zero or  *)
(* one dataframe.                                                          *)
(***************************************************************************)
EXTENDS Integers, Sequences, FiniteSets, Bags, TLC

VARIABLES
    left_input_data,        \* the asset behind args.left_input_data
    right_input_data,       \* the asset behind args.right_input_data
    left_join_column,       \* args.left_join_column
    right_join_column,      \* args.right_join_column
    left_input_data_df,     \* run(): None, or the loaded left dataframe
    right_input_data_df,    \* run(): None, or the loaded right dataframe
    joined_data_df,         \* None, or the joined dataframe (join_data's local,
                            \* and run()'s once join_data has returned it)
    pc,                     \* position of run()
    raised,                 \* the exception that ended run(), or NoError
    saved,                  \* the dataframes handed to save_spark_df_as_mltable
    printed,                \* the lines printed
    trace,                  \* the statements executed so far, in order
    item,                   \* the operand of the next `item in DataGenerationTaskType`
    answers                 \* the membership tests evaluated so far

vars == <<left_input_data, right_input_data, left_join_column, right_join_column,
          left_input_data_df, right_input_data_df, joined_data_df,
          pc, raised, saved, printed, trace, item, answers>>

runVars == <<left_input_data, right_input_data, left_join_column, right_join_column,
             left_input_data_df, right_input_data_df, joined_data_df,
             pc, raised, saved, printed, trace>>

enumVars == <<item, answers>>

(***************************************************************************)
(* Bounds of the model.                                                    *)
(***************************************************************************)
\* The most rows an input table holds.
MaxRows == 2
\* The most membership tests evaluated in a row.
MaxChecks == 2

(***************************************************************************)
(* Values, rows, dataframes.                                               *)
(***************************************************************************)
\* SQL NULL, and the cell values: NULL and two values that differ.
NULL == 0

Vals == {NULL, 1, 2}

\* The column names, in the order the right table lists them.
ColumnOrder == <<"id", "score">>

ColNames == {ColumnOrder[i] : i \in DOMAIN ColumnOrder}

None == {}

Some(df) == {df}

Deref(h) == CHOOSE df \in h : TRUE

Range(s) == {s[i] : i \in DOMAIN s}

\* The ordered schemas a loaded table can have: column names are distinct.
Schemas ==
    {s \in UNION {[1..n -> ColNames] : n \in 0..Cardinality(ColNames)} :
        \A i, j \in DOMAIN s : s[i] = s[j] => i = j}

RowsOfWidth(n) == [1..n -> Vals]

RECURSIVE SumOver(_, _)
\* The sum of the counts b[x] for x in S.
SumOver(b, S) ==
    IF S = {} THEN 0
    ELSE LET x == CHOOSE y \in S : TRUE
         IN  b[x] + SumOver(b, S \ {x})

\* The bags of at most MaxRows rows of n cells.
BagsOfRows(n) ==
    LET supports == {S \in SUBSET RowsOfWidth(n) : Cardinality(S) <= MaxRows}
    IN  {b \in UNION {[S -> 1..MaxRows] : S \in supports} :
            SumOver(b, DOMAIN b) <= MaxRows}

DatasetsOf(schemas) ==
    UNION {{[columns |-> s, rows |-> b] : b \in BagsOfRows(Len(s))} : s \in schemas}

\* The left tables: every schema, every bag of rows.
Datasets == DatasetsOf(Schemas)

\* The right tables: the schemas that list their columns in ColumnOrder.  The
\* program only compares column names for equality, so a run on a right table
\* in another column order is a run on one of these with the names exchanged
\* throughout (in the left table and the join columns too).
RightDatasets ==
    DatasetsOf({s \in Schemas :
        \A i, j \in DOMAIN s :
            i < j => \E a, b \in DOMAIN ColumnOrder :
                        a < b /\ ColumnOrder[a] = s[i] /\ ColumnOrder[b] = s[j]})

EmptyDataset == [columns |-> <<>>, rows |-> EmptyBag]

(***************************************************************************)
(* Exceptions.                                                             *)
(***************************************************************************)
NoError == [type |-> "", message |-> "", label |-> "", names |-> <<>>]

\* shared_utilities.momo_exceptions.InvalidInputError, raised at run.py:21
MissingColumnError(join_column, input_data_name) ==
    [type |-> "InvalidInputError",
     message |-> "The join column is not present in",
     label |-> input_data_name,
     names |-> <<join_column>>]

\* InvalidInputError raised at run.py:58
EmptyResultError ==
    [type |-> "InvalidInputError",
     message |-> "The data joiner resulted in an empty data asset.",
     label |-> "",
     names |-> <<>>]

\* Exception raised at run.py:90
DuplicateColumnsError(duplicate_column_names) ==
    [type |-> "Exception",
     message |-> "Duplicate column names found:",
     label |-> "",
     names |-> duplicate_column_names]

\* What Python raises for joined_data_df.columns.duplicated at run.py:86
AttributeError ==
    [type |-> "AttributeError",
     message |-> "'list' object has no attribute 'duplicated'",
     label |-> "",
     names |-> <<>>]

\* The error of the table reader for an unreadable asset.
ReadError(input_data_name) ==
    [type |-> "InvalidInputError",
     message |-> "Failed to read the asset",
     label |-> input_data_name,
     names |-> <<>>]

(***************************************************************************)
(* The dataframe engine: the operations of pyspark.sql.DataFrame that      *)
(* join_data and run call.                                                 *)
(***************************************************************************)
\* df[name] on a loaded table: the position of the column of that name.
ColumnAt(df, name) == CHOOSE i \in DOMAIN df.columns : df.columns[i] = name

\* Column == Column in a join condition: SQL equality, never true on NULL.
SqlEqual(a, b) == a # NULL /\ b # NULL /\ a = b

RemoveAt(s, p) == SubSeq(s, 1, p - 1) \o SubSeq(s, p + 1, Len(s))

\* Mutant of InnerJoin: the join type 'left' in place of 'inner' (a left row
\* without a match is kept, its right cells NULL).
LeftOuterJoin(left, right, cl, cr) ==
    LET n == Len(left.columns)
        m == Len(right.columns)
        li == ColumnAt(left, cl)
        ri == ColumnAt(right, cr)
        pairs == {p \in BagToSet(left.rows) \X BagToSet(right.rows) :
                    SqlEqual(p[1][li], p[2][ri])}
        alone == {l \in BagToSet(left.rows) : \A p \in pairs : p[1] # l}
    IN  [columns |-> left.columns \o right.columns,
         rows |-> [x \in {p[1] \o p[2] : p \in pairs}
                           \cup {l \o [i \in 1..m |-> NULL] : l \in alone} |->
                     IF SubSeq(x, 1, n) \in alone
                     THEN CopiesIn(SubSeq(x, 1, n), left.rows)
                     ELSE CopiesIn(SubSeq(x, 1, n), left.rows)
                            * CopiesIn(SubSeq(x, n + 1, Len(x)), right.rows)]]

\* left.join(right, left[cl] == right[cr], 'inner'): every pair of a left and a
\* right row satisfying the condition, as the left row followed by the right row.
InnerJoin(left, right, cl, cr) ==
    LET n == Len(left.columns)
        li == ColumnAt(left, cl)
        ri == ColumnAt(right, cr)
        pairs == {p \in BagToSet(left.rows) \X BagToSet(right.rows) :
                    SqlEqual(p[1][li], p[2][ri])}
    IN  [columns |-> left.columns \o right.columns,
         rows |-> [x \in {p[1] \o p[2] : p \in pairs} |->
                     CopiesIn(SubSeq(x, 1, n), left.rows)
                       * CopiesIn(SubSeq(x, n + 1, Len(x)), right.rows)]]

\* df.drop(col) for the column at position p of df.
DropAt(df, p) ==
    LET old == BagToSet(df.rows)
    IN  [columns |-> RemoveAt(df.columns, p),
         rows |-> [y \in {RemoveAt(x, p) : x \in old} |->
                     SumOver(df.rows, {x \in old : RemoveAt(x, p) = y})]]

\* joined.drop(right[cr]): the right table's column cr sits after the left columns.
DropRightColumn(joined, left, right, cr) ==
    DropAt(joined, Len(left.columns) + ColumnAt(right, cr))

\* df.count()
Count(df) == BagCardinality(df.rows)

(***************************************************************************)
(* run.py: _validate_join_column_in_input_data and join_data.              *)
(***************************************************************************)
\* Mutant of the validator: the membership test inverted.
validate_inverted(input_data_df, join_column, input_data_name) ==
    IF join_column \in Range(input_data_df.columns)
    THEN MissingColumnError(join_column, input_data_name)
    ELSE NoError

\* Mutant of the validator: the dataset label is not taken from the argument.
validate_fixed_label(input_data_df, join_column, input_data_name) ==
    IF join_column \notin Range(input_data_df.columns)
    THEN MissingColumnError(join_column, "left_input_data")
    ELSE NoError

\* The exception the validator raises, or NoError when it returns.
validate_join_column_in_input_data(input_data_df, join_column, input_data_name) ==
    IF join_column \notin Range(input_data_df.columns)
    THEN MissingColumnError(join_column, input_data_name)
    ELSE NoError

\* Mutant of JoinTheData: the right key is never dropped.
JoinWithoutDrop(left, cl, right, cr) == InnerJoin(left, right, cl, cr)

\* run.py:43-54, the dataframe join_data assigns to joined_data_df.
JoinTheData(left, cl, right, cr) ==
    IF cl = cr
    THEN DropRightColumn(InnerJoin(left, right, cl, cr), left, right, cr)
    ELSE InnerJoin(left, right, cl, cr)

\* Mutant of ResultIsEmpty: a comparison that no count satisfies.
ResultIsNegative(df) == Count(df) < 0

\* run.py:57, the test that raises the empty-result error.
ResultIsEmpty(df) == Count(df) = 0

(***************************************************************************)
(* run.py: the tail of run(), lines 86-94.                                 *)
(***************************************************************************)
\* DataFrame.columns of a pyspark.sql.DataFrame is a Python list.
ColumnsType == "list"

AttributesOf(type) ==
    IF type = "list"
    THEN {"append", "clear", "copy", "count", "extend", "index", "insert",
          "pop", "remove", "reverse", "sort"}
    ELSE IF type = "pandas.Index"
    THEN {"duplicated", "size", "tolist"}
    ELSE {}

\* columns[columns.duplicated()] of a pandas Index: every occurrence of a name
\* after its first, in order.
Duplicated(columns) ==
    LET F[i \in 0..Len(columns)] ==
          IF i = 0 THEN <<>>
          ELSE IF \E j \in 1..(i - 1) : columns[j] = columns[i]
               THEN Append(F[i - 1], columns[i])
               ELSE F[i - 1]
    IN  F[Len(columns)]

SuccessMessage == "Successfully executed data joiner component."

\* The table writer: the dataframe is persisted.
save_spark_df_as_mltable(df, written) == Append(written, df)

\* Mutant of CheckDuplicatesAndSave: the dataframe is saved before the
\* duplicate check.
SaveThenCheckDuplicates(df) ==
    IF "duplicated" \notin AttributesOf(ColumnsType)
    THEN [raised |-> AttributeError,
          saved |-> save_spark_df_as_mltable(df, <<>>), printed |-> <<>>,
          steps |-> <<"save", "duplicate_check">>]
    ELSE LET duplicate_column_names == Duplicated(df.columns)
         IN  IF Len(duplicate_column_names) > 0
             THEN [raised |-> DuplicateColumnsError(duplicate_column_names),
                   saved |-> save_spark_df_as_mltable(df, <<>>), printed |-> <<>>,
                   steps |-> <<"save", "duplicate_check">>]
             ELSE [raised |-> NoError,
                   saved |-> save_spark_df_as_mltable(df, <<>>),
                   printed |-> <<SuccessMessage>>,
                   steps |-> <<"save", "duplicate_check", "print">>]

\* Lines 86-94 on the dataframe join_data returned: the exception raised, what
\* was saved and printed, and the statements executed.
CheckDuplicatesAndSave(df) ==
    IF "duplicated" \notin AttributesOf(ColumnsType)
    THEN [raised |-> AttributeError, saved |-> <<>>, printed |-> <<>>,
          steps |-> <<"duplicate_check">>]
    ELSE LET duplicate_column_names == Duplicated(df.columns)
         IN  IF Len(duplicate_column_names) > 0
             THEN [raised |-> DuplicateColumnsError(duplicate_column_names),
                   saved |-> <<>>, printed |-> <<>>,
                   steps |-> <<"duplicate_check">>]
             ELSE [raised |-> NoError,
                   saved |-> save_spark_df_as_mltable(df, <<>>),
                   printed |-> <<SuccessMessage>>,
                   steps |-> <<"duplicate_check", "save", "print">>]

(***************************************************************************)
(* The table reader (shared_utilities.io_utils): the dataframe of a        *)
(* readable asset, an error naming the input for an unreadable one.        *)
(***************************************************************************)
try_read_mltable_in_spark_with_error(asset, readable, input_data_name) ==
    IF readable
    THEN [raised |-> NoError, df |-> Some(asset)]
    ELSE [raised |-> ReadError(input_data_name), df |-> None]

(***************************************************************************)
(* run(): one action per statement.                                        *)
(***************************************************************************)
Fail(e) ==
    /\ pc' = "failed"
    /\ raised' = e

\* run.py:76
LoadLeft ==
    /\ pc = "load_left"
    /\ \E readable \in BOOLEAN :
         LET r == try_read_mltable_in_spark_with_error(
                      left_input_data, readable, "left_input_data")
         IN  /\ left_input_data_df' = r.df
             /\ IF r.raised = NoError
                THEN pc' = "load_right" /\ raised' = raised
                ELSE Fail(r.raised)
    /\ trace' = Append(trace, "load_left")
    /\ UNCHANGED <<left_input_data, right_input_data, left_join_column,
                   right_join_column, right_input_data_df, joined_data_df,
                   saved, printed, enumVars>>

\* run.py:77
LoadRight ==
    /\ pc = "load_right"
    /\ \E readable \in BOOLEAN :
         LET r == try_read_mltable_in_spark_with_error(
                      right_input_data, readable, "right_input_data")
         IN  /\ right_input_data_df' = r.df
             /\ IF r.raised = NoError
                THEN pc' = "validate_left" /\ raised' = raised
                ELSE Fail(r.raised)
    /\ trace' = Append(trace, "load_right")
    /\ UNCHANGED <<left_input_data, right_input_data, left_join_column,
                   right_join_column, left_input_data_df, joined_data_df,
                   saved, printed, enumVars>>

\* run.py:39
ValidateLeft ==
    /\ pc = "validate_left"
    /\ LET e == validate_join_column_in_input_data(
                    Deref(left_input_data_df), left_join_column, "left_input_data")
       IN  IF e = NoError
           THEN pc' = "validate_right" /\ raised' = raised
           ELSE Fail(e)
    /\ trace' = Append(trace, "validate_left")
    /\ UNCHANGED <<left_input_data, right_input_data, left_join_column,
                   right_join_column, left_input_data_df, right_input_data_df,
                   joined_data_df, saved, printed, enumVars>>

\* run.py:40
ValidateRight ==
    /\ pc = "validate_right"
    /\ LET e == validate_join_column_in_input_data(
                    Deref(right_input_data_df), right_join_column, "right_input_data")
       IN  IF e = NoError
           THEN pc' = "join" /\ raised' = raised
           ELSE Fail(e)
    /\ trace' = Append(trace, "validate_right")
    /\ UNCHANGED <<left_input_data, right_input_data, left_join_column,
                   right_join_column, left_input_data_df, right_input_data_df,
                   joined_data_df, saved, printed, enumVars>>

\* run.py:43-54
Join ==
    /\ pc = "join"
    /\ joined_data_df' = Some(JoinTheData(Deref(left_input_data_df), left_join_column,
                                          Deref(right_input_data_df), right_join_column))
    /\ pc' = "count"
    /\ trace' = Append(trace, "join")
    /\ UNCHANGED <<left_input_data, right_input_data, left_join_column,
                   right_join_column, left_input_data_df, right_input_data_df,
                   raised, saved, printed, enumVars>>

\* run.py:57-61; at "check_duplicates" join_data has returned joined_data_df
\* to run() (run.py:79)
CountCheck ==
    /\ pc = "count"
    /\ IF ResultIsEmpty(Deref(joined_data_df))
       THEN Fail(EmptyResultError)
       ELSE pc' = "check_duplicates" /\ raised' = raised
    /\ trace' = Append(trace, "count")
    /\ UNCHANGED <<left_input_data, right_input_data, left_join_column,
                   right_join_column, left_input_data_df, right_input_data_df,
                   joined_data_df, saved, printed, enumVars>>

\* run.py:86-94
FinishRun ==
    /\ pc = "check_duplicates"
    /\ LET r == CheckDuplicatesAndSave(Deref(joined_data_df))
       IN  /\ raised' = r.raised
           /\ saved' = saved \o r.saved
           /\ printed' = printed \o r.printed
           /\ trace' = trace \o r.steps
           /\ pc' = IF r.raised = NoError THEN "done" ELSE "failed"
    /\ UNCHANGED <<left_input_data, right_input_data, left_join_column,
                   right_join_column, left_input_data_df, right_input_data_df,
                   joined_data_df, enumVars>>

(***************************************************************************)
(* constants.py: MetaEnum and DataGenerationTaskType.                      *)
(***************************************************************************)
\* constants.py:143-146, the members in definition order.
DataGenerationTaskType ==
    <<[name |-> "NLI", value |-> "NLI"],
      [name |-> "CONVERSATION", value |-> "CONVERSATION"],
      [name |-> "NLU_QUESTION_ANSWERING", value |-> "NLU_QA"],
      [name |-> "SUMMARIZATION", value |-> "SUMMARIZATION"]>>

Members == Range(DataGenerationTaskType)

\* The operands tried: a Python object is [kind, text] with kind one of
\*   "str"    the string text
\*   "int"    the integer written text
\*   "none"   None
\*   "list"   the one-element list [text] (unhashable)
\*   "member" the member DataGenerationTaskType.<text>
Items ==
    {[kind |-> "str", text |-> t] :
        t \in {"NLI", "CONVERSATION", "NLU_QA", "SUMMARIZATION",
               "NLU_QUESTION_ANSWERING", "nli", "", "MATH"}}
    \cup {[kind |-> "int", text |-> "5"],
          [kind |-> "none", text |-> ""],
          [kind |-> "list", text |-> "NLI"]}
    \cup {[kind |-> "member", text |-> m.name] : m \in Members}

\* Mutant of EnumCall: cls[item], the lookup of a member by name, which raises
\* KeyError for a name that is not a member's.
EnumLookupByName(it) ==
    LET found == {m \in Members : it.kind \in {"str", "member"} /\ m.name = it.text}
    IN  IF found # {}
        THEN [raised |-> "", member |-> (CHOOSE m \in found : TRUE).name]
        ELSE [raised |-> "KeyError", member |-> ""]

\* cls(item), Enum's lookup of a member by value: the member found, or the
\* exception raised.  A member of the class is returned as it is; a hashable
\* value is looked up in the value map and an unhashable one compared with every
\* member's value; a value not found raises ValueError.
EnumCall(it) ==
    IF it.kind = "member"
    THEN [raised |-> "", member |-> it.text]
    ELSE LET found == {m \in Members : it.kind = "str" /\ m.value = it.text}
         IN  IF found # {}
             THEN [raised |-> "", member |-> (CHOOSE m \in found : TRUE).name]
             ELSE [raised |-> "ValueError", member |-> ""]

\* constants.py:131-137, MetaEnum.__contains__: the value returned, or the
\* exception that escapes.
MetaEnum__contains__(it) ==
    LET r == EnumCall(it)
    IN  IF r.raised = "ValueError" THEN [raised |-> "", value |-> FALSE]
        ELSE IF r.raised # "" THEN [raised |-> r.raised, value |-> FALSE]
        ELSE [raised |-> "", value |-> TRUE]

\* One evaluation of `item in DataGenerationTaskType`.
CheckMembership ==
    /\ Len(answers) < MaxChecks
    /\ answers' = Append(answers, [item |-> item, result |-> MetaEnum__contains__(item)])
    /\ item' \in Items
    /\ UNCHANGED runVars

EnumIdle ==
    /\ item = [kind |-> "none", text |-> ""]
    /\ answers = <<>>

RunIdle ==
    /\ left_input_data = EmptyDataset
    /\ right_input_data = EmptyDataset
    /\ left_join_column = "id"
    /\ right_join_column = "id"
    /\ left_input_data_df = None
    /\ right_input_data_df = None
    /\ joined_data_df = None
    /\ pc = "idle"
    /\ raised = NoError
    /\ saved = <<>>
    /\ printed = <<>>
    /\ trace = <<>>

Init ==
    /\ left_input_data \in Datasets
    /\ right_input_data \in RightDatasets
    /\ left_join_column \in ColNames
    /\ right_join_column \in ColNames
    /\ left_input_data_df = None
    /\ right_input_data_df = None
    /\ joined_data_df = None
    /\ pc = "load_left"
    /\ raised = NoError
    /\ saved = <<>>
    /\ printed = <<>>
    /\ trace = <<>>
    /\ EnumIdle

Next ==
    \/ LoadLeft
    \/ LoadRight
    \/ ValidateLeft
    \/ ValidateRight
    \/ Join
    \/ CountCheck
    \/ FinishRun

Spec == Init /\ [][Next]_vars

EnumInit ==
    /\ RunIdle
    /\ item \in Items
    /\ answers = <<>>

EnumNext == CheckMembership

EnumSpec == EnumInit /\ [][EnumNext]_vars

(***************************************************************************)
(* Vocabulary of the properties.                                           *)
(***************************************************************************)
Did(step) == \E i \in DOMAIN trace : trace[i] = step

\* join_data has returned its dataframe to run().
Returned == pc = "check_duplicates" \/ Did("duplicate_check")

Ended == pc \in {"done", "failed"}

BothLoaded == left_input_data_df # None /\ right_input_data_df # None

LeftColumnPresent == left_join_column \in Range(left_input_data.columns)

RightColumnPresent == right_join_column \in Range(right_input_data.columns)

\* Two cells hold the same value; NULL is the absence of a value.
EqualValues(a, b) == a # NULL /\ b # NULL /\ a = b

\* The pairs (l, r) of a row of L and a row of R with l[cl] equal to r[cr].
MatchingPairs ==
    LET li == CHOOSE i \in DOMAIN left_input_data.columns :
                  left_input_data.columns[i] = left_join_column
        ri == CHOOSE i \in DOMAIN right_input_data.columns :
                  right_input_data.columns[i] = right_join_column
    IN  {p \in BagToSet(left_input_data.rows) \X BagToSet(right_input_data.rows) :
            EqualValues(p[1][li], p[2][ri])}

Occurrences(columns, name) == Cardinality({i \in DOMAIN columns : columns[i] = name})

RepeatedNames(columns) == {c \in Range(columns) : Occurrences(columns, c) > 1}

Without(columns, name) == SelectSeq(columns, LAMBDA c : c # name)

\* The schema the join is to produce from the two input schemas.
ExpectedColumns ==
    IF left_join_column = right_join_column
    THEN left_input_data.columns \o Without(right_input_data.columns, right_join_column)
    ELSE left_input_data.columns \o right_input_data.columns

(***************************************************************************)
(* C1: when the left join column is not a column of the left dataset,      *)
(* join_data fails with InvalidInputError naming left_input_data, whether  *)
(* or not the right join column exists, and it does so before the right    *)
(* dataset's column is checked and before any join is made.                *)
(***************************************************************************)
C1_LeftColumnMissing ==
    (Did("validate_left") /\ ~LeftColumnPresent) =>
        /\ pc = "failed"
        /\ raised.type = "InvalidInputError"
        /\ raised.label = "left_input_data"
        /\ raised.names = <<left_join_column>>
        /\ ~Did("validate_right")
        /\ ~Did("join")
        /\ joined_data_df = None

C1_Witness ==
    /\ Did("validate_left")
    /\ ~LeftColumnPresent
    /\ ~RightColumnPresent
    /\ pc = "failed"

(***************************************************************************)
(* C2: when the left join column exists and the right join column is not a *)
(* column of the right dataset, join_data fails with InvalidInputError     *)
(* naming right_input_data and the column, and no join is executed.        *)
(***************************************************************************)
C2_RightColumnMissing ==
    /\ (BothLoaded /\ ~RightColumnPresent) => ~Did("join")
    /\ (Did("validate_right") /\ LeftColumnPresent /\ ~RightColumnPresent) =>
          /\ pc = "failed"
          /\ raised.type = "InvalidInputError"
          /\ raised.label = "right_input_data"
          /\ raised.names = <<right_join_column>>
          /\ joined_data_df = None

C2_Witness ==
    /\ Did("validate_right")
    /\ LeftColumnPresent
    /\ ~RightColumnPresent
    /\ pc = "failed"

(***************************************************************************)
(* C3: emptiness law.  When both join columns exist and no row of L has a  *)
(* value at cl equal to the value at cr of a row of R, join_data fails     *)
(* with InvalidInputError and returns no dataset, however many rows L and  *)
(* R hold; and a dataset join_data returns has at least one row.           *)
(***************************************************************************)
C3_EmptinessLaw ==
    /\ (Did("count") /\ MatchingPairs = {}) =>
          /\ pc = "failed"
          /\ raised.type = "InvalidInputError"
          /\ raised = EmptyResultError
          /\ ~Returned
    /\ Returned =>
          BagCardinality(Deref(joined_data_df).rows) >= 1

C3_Witness ==
    /\ Did("count")
    /\ MatchingPairs = {}
    /\ left_join_column # right_join_column
    /\ BagCardinality(left_input_data.rows) = MaxRows
    /\ BagCardinality(right_input_data.rows) = MaxRows
    /\ pc = "failed"

(***************************************************************************)
(* C4: key-dedup law.  After a successful join_data, when cl = cr the      *)
(* output schema holds exactly one column named cl, the left one (the      *)
(* right dataset's copy is dropped); when cl # cr it holds both cl and cr  *)
(* and nothing is dropped.                                                 *)
(***************************************************************************)
C4_KeyDedupLaw ==
    Returned =>
        LET out == Deref(joined_data_df).columns
        IN  IF left_join_column = right_join_column
            THEN /\ Occurrences(out, left_join_column) = 1
                 /\ Len(out) = Len(left_input_data.columns)
                                 + Len(right_input_data.columns) - 1
                 /\ SubSeq(out, 1, Len(left_input_data.columns))
                        = left_input_data.columns
            ELSE /\ left_join_column \in Range(out)
                 /\ right_join_column \in Range(out)
                 /\ out = left_input_data.columns \o right_input_data.columns

C4_Witness ==
    /\ Returned
    /\ left_join_column = right_join_column
    /\ Len(left_input_data.columns) = 2
    /\ Len(right_input_data.columns) = 2

(***************************************************************************)
(* C5: after a successful join_data the output rows are exactly the        *)
(* combinations of a row l of L and a row r of R with l[cl] = r[cr], one   *)
(* output row per matching pair, and the output schema is the left columns *)
(* followed by the right columns, less the right key when cl = cr.         *)
(***************************************************************************)
C5_InnerJoinRows ==
    Returned =>
        LET out == Deref(joined_data_df)
            Combined(p) ==
                IF left_join_column = right_join_column
                THEN p[1] \o SelectSeq(
                         [i \in DOMAIN p[2] |-> <<right_input_data.columns[i], p[2][i]>>],
                         LAMBDA c : c[1] # right_join_column)
                ELSE p[1] \o [i \in DOMAIN p[2] |-> <<right_input_data.columns[i], p[2][i]>>]
            Cells(x) ==
                [i \in DOMAIN x |->
                    IF i <= Len(left_input_data.columns) THEN x[i] ELSE x[i][2]]
            PairsOf(x) == {p \in MatchingPairs : Cells(Combined(p)) = x}
            PairCount(p) ==
                CopiesIn(p[1], left_input_data.rows)
                  * CopiesIn(p[2], right_input_data.rows)
            RECURSIVE Total(_)
            Total(S) ==
                IF S = {} THEN 0
                ELSE LET p == CHOOSE q \in S : TRUE
                     IN  PairCount(p) + Total(S \ {p})
        IN  /\ out.columns = ExpectedColumns
            /\ BagToSet(out.rows) = {Cells(Combined(p)) : p \in MatchingPairs}
            /\ \A x \in BagToSet(out.rows) : CopiesIn(x, out.rows) = Total(PairsOf(x))
            /\ BagCardinality(out.rows) = Total(MatchingPairs)

\* L = [{id:1, score:1}, {id:2, score:2}], R = [{id:1}, {id:NULL}] joined on id
\* gives the one row {id:1, score:1}: the key once, the unmatched rows absent.
C5_Witness ==
    /\ Returned
    /\ left_join_column = "id"
    /\ right_join_column = "id"
    /\ left_input_data = [columns |-> <<"id", "score">>,
                          rows |-> SetToBag({<<1, 1>>, <<2, 2>>})]
    /\ right_input_data = [columns |-> <<"id">>,
                           rows |-> SetToBag({<<1>>, <<NULL>>})]
    /\ Deref(joined_data_df) = [columns |-> <<"id", "score">>,
                                rows |-> SetToBag({<<1, 1>>})]

(***************************************************************************)
(* C6: in run(), when the join succeeds and the output schema holds a      *)
(* column name more than once, the run fails with an error that is not an  *)
(* InvalidInputError and whose message lists every duplicated name, and    *)
(* nothing has been saved.                                                 *)
(***************************************************************************)
C6_DuplicateColumnsReported ==
    (Ended /\ Returned
       /\ RepeatedNames(Deref(joined_data_df).columns) # {}) =>
        /\ pc = "failed"
        /\ raised.type # "InvalidInputError"
        /\ RepeatedNames(Deref(joined_data_df).columns) \subseteq Range(raised.names)
        /\ saved = <<>>

(***************************************************************************)
(* C7: success path of run().  When both datasets load, both join columns  *)
(* exist, the join has at least one row and no column name repeats in the  *)
(* output, run() saves the joined dataset exactly once, prints the         *)
(* confirmation and raises nothing.                                        *)
(***************************************************************************)
C7_SuccessPath ==
    (Ended /\ BothLoaded /\ LeftColumnPresent /\ RightColumnPresent
       /\ MatchingPairs # {} /\ RepeatedNames(ExpectedColumns) = {}) =>
        /\ pc = "done"
        /\ raised = NoError
        /\ saved = <<Deref(joined_data_df)>>
        /\ printed = <<SuccessMessage>>

(***************************************************************************)
(* C8: no partial success.  The output is saved at most once and only in a *)
(* run in which nothing was raised; a run that ended in an error saved     *)
(* nothing and printed no confirmation; no statement is executed twice.    *)
(***************************************************************************)
C8_NoPartialSuccess ==
    /\ Len(saved) <= 1
    /\ saved # <<>> => (raised = NoError /\ pc = "done")
    /\ printed # <<>> => (raised = NoError /\ pc = "done")
    /\ raised # NoError => pc = "failed"
    /\ pc = "failed" => (raised # NoError /\ saved = <<>> /\ printed = <<>>)
    /\ \A i, j \in DOMAIN trace : trace[i] = trace[j] => i = j

C8_Witness ==
    /\ pc = "failed"
    /\ Did("duplicate_check")
    /\ raised # NoError
    /\ saved = <<>>

(***************************************************************************)
(* C9: error precedence in run().  With both datasets loaded, the checks   *)
(* fire in the order left column missing, right column missing, empty      *)
(* join, duplicate output columns, and a run in which one of them is       *)
(* violated reports exactly the first violated one.                        *)
(***************************************************************************)
C9_ErrorPrecedence ==
    (Ended /\ BothLoaded) =>
        IF ~LeftColumnPresent
        THEN raised = MissingColumnError(left_join_column, "left_input_data")
        ELSE IF ~RightColumnPresent
        THEN raised = MissingColumnError(right_join_column, "right_input_data")
        ELSE IF MatchingPairs = {}
        THEN raised = EmptyResultError
        ELSE IF RepeatedNames(ExpectedColumns) # {}
        THEN /\ raised.type = "Exception"
             /\ raised.message = "Duplicate column names found:"
             /\ Range(raised.names) = RepeatedNames(ExpectedColumns)
        ELSE TRUE

(***************************************************************************)
(* C10: `x in DataGenerationTaskType` is total: it is True exactly when x  *)
(* equals one of the values "NLI", "CONVERSATION", "NLU_QA",               *)
(* "SUMMARIZATION", and False, raising nothing, for every other operand,   *)
(* the member name "NLU_QUESTION_ANSWERING" included.                      *)
(***************************************************************************)
C10_MembershipByValue ==
    \A i \in DOMAIN answers :
        LET x == answers[i].item
            equalsAValue ==
                \/ x.kind = "str"
                     /\ x.text \in {"NLI", "CONVERSATION", "NLU_QA", "SUMMARIZATION"}
                \/ x.kind = "member"
        IN  /\ answers[i].result.raised = ""
            /\ answers[i].result.value = equalsAValue

C10_Witness ==
    \E i, j \in DOMAIN answers :
        /\ answers[i].item = [kind |-> "str", text |-> "NLU_QUESTION_ANSWERING"]
        /\ answers[i].result = [raised |-> "", value |-> FALSE]
        /\ answers[j].item = [kind |-> "str", text |-> "NLU_QA"]
        /\ answers[j].result = [raised |-> "", value |-> TRUE]

====
